---- MODULE Spec2Model ----
(***************************************************************************)
(* Model of converter.py: convert_step_to_glb, the face walk that merges   *)
(* per-face triangulations into one indexed mesh, and the progress         *)
(* checkpoints it reports through _safe_call_progress.                     *)
(*                                                                         *)
(* Coordinates are integers counted in tenths of the last kept decimal     *)
(* digit, so round(x, round_decimals) is rounding to a multiple of         *)
(* Quantum.  The percent of a processing checkpoint is computed as the     *)
(* code computes it, in IEEE-754 double arithmetic.                        *)
(***************************************************************************)
EXTENDS Integers, Sequences, FiniteSets, TLC

(* ---------------------------------------------------------------------- *)
(* Bounds of the model                                                     *)
(* ---------------------------------------------------------------------- *)
MaxFaces == 3
MaxRestarts == 1

(* ---------------------------------------------------------------------- *)
(* IEEE-754 double arithmetic for  int((face_processed / total_faces) * 78) *)
(* A mantissa is a sequence of bits, most significant first.              *)
(* ---------------------------------------------------------------------- *)
MantBits == 53

\* number of bits of n, i.e. the e with 2^(e-1) <= n < 2^e (0 for n = 0)
RECURSIVE BitLen(_)
BitLen(n) == IF n = 0 THEN 0 ELSE 1 + BitLen(n \div 2)

\* the w low bits of the natural n, most significant first
Bits(n, w) == [k \in 1..w |-> (n \div 2^(w - k)) % 2]

\* value of a bit sequence (of at most 30 bits)
RECURSIVE FromBits(_)
FromBits(b) ==
    IF Len(b) = 0 THEN 0
    ELSE IF Len(b) = 1 THEN b[1]
    ELSE LET h == Len(b) \div 2
         IN  FromBits(SubSeq(b, 1, h)) * 2^(Len(b) - h)
               + FromBits(SubSeq(b, h + 1, Len(b)))

\* 2^k mod d, by repeated squaring
RECURSIVE PowMod2(_, _)
PowMod2(k, d) ==
    IF k = 0 THEN 1 % d
    ELSE LET h == PowMod2(k \div 2, d)
         IN  (h * h * (IF k % 2 = 1 THEN 2 ELSE 1)) % d

\* long division of r by d (0 <= r < d): the first n bits of r/d and the
\* remainder r * 2^n mod d that is left after them
DivBits(r, d, n) ==
    LET Rem(k) == (r * PowMod2(k, d)) % d
    IN  [bits |-> [k \in 1..n |-> IF 2 * Rem(k - 1) >= d THEN 1 ELSE 0],
         rem  |-> Rem(n)]

\* bits + 1, same length; carry is 1 when the increment overflowed
Incr(b) ==
    LET zeros == {k \in 1..Len(b) : b[k] = 0}
    IN  IF zeros = {} THEN [bits |-> [k \in 1..Len(b) |-> 0], carry |-> 1]
        ELSE LET j == CHOOSE k \in zeros : \A z \in zeros : z <= k
             IN  [bits  |-> [k \in 1..Len(b) |->
                               IF k < j THEN b[k] ELSE IF k = j THEN 1 ELSE 0],
                  carry |-> 0]

\* round-to-nearest, ties-to-even, of the mantissa `keep` given whether the
\* discarded tail is above, equal to or below one half of the last place.
\* The result is [bits, exp]: exp is 1 when rounding carried into a new bit.
RoundEven(keep, tail) ==
    LET up == \/ tail = "above"
              \/ tail = "half" /\ keep[Len(keep)] = 1
        inc == Incr(keep)
    IN  IF ~up THEN [bits |-> keep, exp |-> 0]
        ELSE IF inc.carry = 0 THEN [bits |-> inc.bits, exp |-> 0]
        ELSE [bits |-> <<1>> \o SubSeq(inc.bits, 1, Len(keep) - 1), exp |-> 1]

\* how a discarded bit string compares with one half of the last kept place
Discarded(dropped) ==
    IF \A k \in 1..Len(dropped) : dropped[k] = 0 THEN "below"
    ELSE IF dropped[1] = 0 THEN "below"
    ELSE IF \A k \in 2..Len(dropped) : dropped[k] = 0 THEN "half"
    ELSE "above"

\* the double nearest to p / t  (p >= 1, t >= 1):  0.b1..b53 * 2^exp, b1 = 1
FloatDiv(p, t) ==
    LET e0 == BitLen(p) - BitLen(t)
        \* scale p/t into [1/2, 2)
        num == IF e0 >= 0 THEN p ELSE p * 2^(-e0)
        den0 == IF e0 >= 0 THEN t * 2^e0 ELSE t
        \* then into [1/2, 1)
        e == IF num >= den0 THEN e0 + 1 ELSE e0
        den == IF num >= den0 THEN 2 * den0 ELSE den0
        q == DivBits(num, den, MantBits)
        tail == IF q.rem = 0 THEN "below"
                ELSE IF 2 * q.rem > den THEN "above"
                ELSE IF 2 * q.rem = den THEN "half"
                ELSE "below"
        r == RoundEven(q.bits, tail)
    IN  [bits |-> r.bits, exp |-> e + r.exp]

\* bits * c for a 53-bit mantissa and a natural c < 2^12, as a bit sequence
\* without leading zeros; computed on limbs of 18, 18 and 17 bits
MulSmall(b, c) ==
    LET l1 == FromBits(SubSeq(b, 1, 18))
        l2 == FromBits(SubSeq(b, 19, 36))
        l3 == FromBits(SubSeq(b, 37, 53))
        c3 == l3 * c
        c2 == l2 * c + c3 \div 2^17
        c1 == l1 * c + c2 \div 2^18
    IN  Bits(c1, BitLen(c1)) \o Bits(c2 % 2^18, 18) \o Bits(c3 % 2^17, 17)

\* the double nearest to x * c
FloatMul(x, c) ==
    LET prod == MulSmall(x.bits, c)
        len == Len(prod)
        r == RoundEven(SubSeq(prod, 1, MantBits),
                       Discarded(SubSeq(prod, MantBits + 1, len)))
    IN  [bits |-> r.bits, exp |-> x.exp + (len - MantBits) + r.exp]

\* int(x) for a positive double x < 2^30: truncation
FloatToInt(x) ==
    IF x.exp <= 0 THEN 0 ELSE FromBits(SubSeq(x.bits, 1, x.exp))

\* the interpolation with its operands exchanged
Pct_swapped(processed, total) ==
    12 + FloatToInt(FloatMul(FloatDiv(total, processed), 90 - 12))

\* pct = 12 + int((face_processed / total_faces) * (90 - 12))
Pct(processed, total) ==
    12 + FloatToInt(FloatMul(FloatDiv(processed, total), 90 - 12))

\* update_every = max(1, math.ceil(total_faces / 100)).  total / 100 is never
\* within a rounding error of an integer it does not equal, so the ceiling of
\* the double quotient is the ceiling of the exact one.
UpdateEvery(total) ==
    LET c == (total + 99) \div 100 IN IF c > 1 THEN c ELSE 1

(* ---------------------------------------------------------------------- *)
(* Points, spatial keys and the vertex table                               *)
(* ---------------------------------------------------------------------- *)
Quantum == 10

\* round(x, round_decimals): the nearest multiple of Quantum, ties to even
RoundCoord(x) ==
    LET q == x \div Quantum
        r == x % Quantum
    IN  IF 2 * r < Quantum THEN q * Quantum
        ELSE IF 2 * r > Quantum THEN (q + 1) * Quantum
        ELSE IF q % 2 = 0 THEN q * Quantum ELSE (q + 1) * Quantum

\* coord = (round(X), round(Y), round(Z))
Coord(p) == <<RoundCoord(p[1]), RoundCoord(p[2]), RoundCoord(p[3])>>

\* p.Transformed(trsf) when it does not raise; trsf is a translation
Transformed(p, trsf) == <<p[1] + trsf[1], p[2] + trsf[2], p[3] + trsf[3]>>

None == -1

\* vertex_map = {}
EmptyMap == [k \in {} |-> None]

\* vertex_map.get(k)
Get(m, k) == IF k \in DOMAIN m THEN m[k] ELSE None

\* vertex_map[k] = idx
Put(m, k, idx) == [x \in DOMAIN m \cup {k} |-> IF x = k THEN idx ELSE m[x]]

\* the index counted from one
NewIndex_OneBased(v) == Len(v) + 1

\* idx = len(vertices)
NewIndex(v) == Len(v)

\* the table is the pair of vertices (v) and vertex_map (m)
AddVertex(tbl, k) ==
    [v |-> Append(tbl.v, k), m |-> Put(tbl.m, k, NewIndex(tbl.v))]

\* node pass, one node: skip a key already in vertex_map, else append it
InsertNode(tbl, k) == IF k \in DOMAIN tbl.m THEN tbl ELSE AddVertex(tbl, k)

\* the triangle pass appending [ia, ic, ib]
ResolveTriangle_Swapped(tbl, ca, cb, cc) ==
    LET ia0 == Get(tbl.m, ca)
        ib0 == Get(tbl.m, cb)
        ic0 == Get(tbl.m, cc)
        t1 == IF ia0 = None THEN AddVertex(tbl, ca) ELSE tbl
        ia == IF ia0 = None THEN NewIndex(tbl.v) ELSE ia0
        t2 == IF ib0 = None THEN AddVertex(t1, cb) ELSE t1
        ib == IF ib0 = None THEN NewIndex(t1.v) ELSE ib0
        t3 == IF ic0 = None THEN AddVertex(t2, cc) ELSE t2
        ic == IF ic0 = None THEN NewIndex(t2.v) ELSE ic0
    IN  [tbl |-> t3, tri |-> <<ia, ic, ib>>]

\* triangle pass, one triangle: the three lookups are made first, then each
\* missing key is inserted in turn; the result is the table and [ia, ib, ic]
ResolveTriangle(tbl, ca, cb, cc) ==
    LET ia0 == Get(tbl.m, ca)
        ib0 == Get(tbl.m, cb)
        ic0 == Get(tbl.m, cc)
        t1 == IF ia0 = None THEN AddVertex(tbl, ca) ELSE tbl
        ia == IF ia0 = None THEN NewIndex(tbl.v) ELSE ia0
        t2 == IF ib0 = None THEN AddVertex(t1, cb) ELSE t1
        ib == IF ib0 = None THEN NewIndex(t1.v) ELSE ib0
        t3 == IF ic0 = None THEN AddVertex(t2, cc) ELSE t2
        ic == IF ic0 = None THEN NewIndex(t2.v) ELSE ic0
    IN  [tbl |-> t3, tri |-> <<ia, ib, ic>>]

\* the test of the vertices alone
NoMesh_VerticesOnly(v, f) == v = <<>>

\* the test with `and` in place of `or`
NoMesh_Both(v, f) == v = <<>> /\ f = <<>>

\* if not vertices or not faces
NoMesh(v, f) == v = <<>> \/ f = <<>>

(* ---------------------------------------------------------------------- *)
(* Input shapes                                                            *)
(* ---------------------------------------------------------------------- *)
\* A face is its triangulation (has = FALSE when BRep_Tool.Triangulation
\* returns None), its location, and the nodes on which Transformed raises.
NoTransform == <<0, 0, 0>>

FNone == [has |-> FALSE, nodes |-> <<>>, tris |-> <<>>,
          loc |-> NoTransform, bad |-> {}]

FTri == [has |-> TRUE,
         nodes |-> << <<0, 0, 0>>, <<10, 0, 0>>, <<0, 10, 0>> >>,
         tris |-> << <<1, 2, 3>> >>,
         loc |-> NoTransform, bad |-> {}]

\* a unit square split along a diagonal; node 5 rounds to the key of node 1
FQuad == [has |-> TRUE,
          nodes |-> << <<0, 0, 0>>, <<10, 0, 0>>, <<10, 10, 0>>,
                       <<0, 10, 0>>, <<5, -5, 4>> >>,
          tris |-> << <<1, 2, 3>>, <<5, 3, 4>> >>,
          loc |-> NoTransform, bad |-> {}]

\* a translated face; Transformed raises on node 4, and the second triangle
\* names node 1 twice and node 4
FShift == [has |-> TRUE,
           nodes |-> << <<0, 0, 0>>, <<10, 0, 0>>, <<0, 10, 0>>,
                        <<10, 10, 0>> >>,
           tris |-> << <<1, 2, 3>>, <<1, 1, 4>> >>,
           loc |-> <<10, 0, 0>>, bad |-> {4}]

\* a triangulation with nodes and no triangle
FNoTris == [has |-> TRUE,
            nodes |-> << <<0, 0, 0>>, <<10, 0, 0>>, <<0, 10, 0>> >>,
            tris |-> <<>>,
            loc |-> NoTransform, bad |-> {}]

FaceKinds == {FNone, FTri, FQuad, FShift, FNoTris}

SmallShapes == UNION {[1..n -> FaceKinds] : n \in 0..MaxFaces}

\* shapes with many faces: all alike, or one triangulated face followed by
\* faces without triangulation
LargeCounts == {26, 101, 250}

LargeShapes ==
    {[k \in 1..n |-> FTri] : n \in LargeCounts}
      \cup {[k \in 1..n |-> IF k = 1 THEN FTri ELSE FNone] : n \in LargeCounts}

Shapes == SmallShapes \cup LargeShapes

\* what TopExp_Explorer.Next() does when More() is already false: raise
\* Standard_NoMoreObject, leave the explorer exhausted, or start the
\* exploration over.  Which one depends on the build of the library and is
\* the same for every such call of a run; "unobserved" until the first one.
PastEndOutcomes == {"raise", "stay", "restart"}

(* ---------------------------------------------------------------------- *)
(* State                                                                   *)
(* ---------------------------------------------------------------------- *)
VARIABLES
    pc,                 \* position in convert_step_to_glb
    shape,              \* reader.OneShape(): the sequence of faces
    progress_callback,  \* "absent", "ok" or "raises"
    past_end,           \* outcome of Next() on an exhausted explorer
    restarts,           \* number of times the explorer started over
    vertices, faces, vertex_map,
    exp_counter, total_faces,
    exp, face_processed, tri_count, update_every,
    i, t_idx,           \* loop variables of the node and triangle passes
    attempted,          \* checkpoints passed to _safe_call_progress
    delivered,          \* checkpoints the observer was called with
    escaped,            \* an observer's exception left _safe_call_progress
    cb_raised,          \* the observer raised in some call
    result,             \* the returned (ok, message), once pc = "done"
    written,            \* dst holds bytes written by this conversion
    env,                \* what the collaborators answered, in call order
    run,                \* 1 for a first conversion, 2 for a repeated one
    first               \* outcome of the first conversion, once repeated

vars == <<pc, shape, progress_callback, past_end, restarts,
          vertices, faces, vertex_map, exp_counter, total_faces,
          exp, face_processed, tri_count, update_every, i, t_idx,
          attempted, delivered, escaped, cb_raised, result, written, env, run,
          first>>

input == <<shape, progress_callback, run, first>>
mesh == <<vertices, faces, vertex_map, tri_count>>
counting == <<exp_counter, total_faces>>
walking == <<exp, face_processed, update_every, restarts>>
passes == <<i, t_idx>>

Checkpoint(percent, state) == [percent |-> percent, state |-> state]

\* what one call of the observer can do
CallOutcomes(cb) ==
    IF cb = "raises" THEN {"returns", "Exception"} ELSE {"returns"}

\* the handler of _safe_call_progress without its except clause
Caught_Nothing(outcome) == FALSE

\* except Exception: pass
Caught(outcome) == outcome = "Exception"

\* _safe_call_progress, for the checkpoints cps of one step in order: the
\* observer is called when there is one, and whatever it raises is dropped
SafeCallProgress(cps) ==
    /\ attempted' = attempted \o cps
    /\ delivered' = IF progress_callback = "absent" THEN delivered
                    ELSE delivered \o cps
    /\ \E outcome \in CallOutcomes(progress_callback) :
         LET raises == /\ progress_callback # "absent"
                       /\ cps # <<>>
                       /\ outcome # "returns"
         IN  /\ cb_raised' = (cb_raised \/ raises)
             /\ escaped' = (escaped \/ (raises /\ ~Caught(outcome)))

\* where the call is in its loops: the loop variables bound at pc
Place ==
    CASE pc = "count" -> <<exp_counter>>
      [] pc \in {"walk", "progress"} -> <<exp, face_processed>>
      [] pc = "nodes" -> <<exp, face_processed, i>>
      [] pc = "tris" -> <<exp, face_processed, t_idx>>
      [] OTHER -> <<>>

\* the answer of a collaborator, with the place of the call
Answer(call, outcome) == [call |-> call, outcome |-> outcome, at |-> Place]

\* a collaborator answers: the answer is recorded, and a repeated conversion
\* of the same input gets the answers the first one got
Answered(call, outcome) ==
    /\ env' = Append(env, Answer(call, outcome))
    /\ run = 2 =>
         /\ Len(env') <= Len(first.env)
         /\ env'[Len(env')] = first.env[Len(env')]

\* value of result while nothing has been returned
NoResult == [ok |-> FALSE, message |-> ""]

\* return (ok, message)
Return(ok, message) ==
    /\ result' = [ok |-> ok, message |-> message]
    /\ pc' = "done"

\* value of first while no conversion has been repeated
NoFirst ==
    [result |-> NoResult, vertices |-> <<>>, faces |-> <<>>,
     attempted |-> <<>>, delivered |-> <<>>, env |-> <<>>,
     progress_callback |-> "absent"]

\* exp.More() and exp.Current() of an explorer at position e
More(e) == e <= Len(shape)
Current(e) == shape[e]

Init ==
    /\ shape \in Shapes
    /\ progress_callback \in {"absent", "ok", "raises"}
    /\ past_end = "unobserved"
    /\ pc = "exists"
    /\ restarts = 0
    /\ vertices = <<>> /\ faces = <<>> /\ vertex_map = EmptyMap
    /\ exp_counter = 0 /\ total_faces = 0
    /\ exp = 0 /\ face_processed = 0 /\ tri_count = 0 /\ update_every = 0
    /\ i = 0 /\ t_idx = 0
    /\ attempted = <<>> /\ delivered = <<>> /\ escaped = FALSE
    /\ cb_raised = FALSE
    /\ result = NoResult
    /\ written = FALSE
    /\ env = <<>>
    /\ run = 1
    /\ first = NoFirst

(* ---------------------------------------------------------------------- *)
(* convert_step_to_glb, one action per step                                *)
(* ---------------------------------------------------------------------- *)
\* if not src.exists(): error checkpoint and return
CheckExists ==
    /\ pc = "exists"
    /\ \E exists \in BOOLEAN :
         /\ Answered("src.exists", IF exists THEN "True" ELSE "False")
         /\ IF exists
            THEN /\ pc' = "import"
                 /\ UNCHANGED <<attempted, delivered, escaped, cb_raised,
                                result>>
            ELSE /\ SafeCallProgress(<<Checkpoint(0, "error")>>)
                 /\ Return(FALSE, "Input file not found")
    /\ UNCHANGED <<input, past_end, mesh, counting, walking, passes, written>>

\* the lazy imports; on failure an error checkpoint and return
ImportLibs ==
    /\ pc = "import"
    /\ \E imported \in BOOLEAN :
         /\ Answered("import", IF imported THEN "imported" ELSE "raised")
         /\ IF imported
            THEN /\ pc' = "starting"
                 /\ UNCHANGED <<attempted, delivered, escaped, cb_raised,
                                result>>
            ELSE /\ SafeCallProgress(<<Checkpoint(0, "error")>>)
                 /\ Return(FALSE, "Required libraries missing")
    /\ UNCHANGED <<input, past_end, mesh, counting, walking, passes, written>>

\* first statement of the try block
Starting ==
    /\ pc = "starting"
    /\ SafeCallProgress(<<Checkpoint(1, "starting")>>)
    /\ pc' = "read"
    /\ UNCHANGED <<input, past_end, mesh, counting, walking, passes, result,
                   written, env>>

\* status = reader.ReadFile(str(src))
ReadFile ==
    /\ pc = "read"
    /\ \E status \in {"RetDone", "RetFail"} :
         /\ Answered("reader.ReadFile", status)
         /\ IF status # "RetDone"
            THEN /\ SafeCallProgress(<<Checkpoint(0, "error")>>)
                 /\ Return(FALSE, "STEP read failed")
            ELSE /\ SafeCallProgress(<<Checkpoint(5, "loaded")>>)
                 /\ pc' = "transfer"
                 /\ UNCHANGED result
    /\ UNCHANGED <<input, past_end, mesh, counting, walking, passes, written>>

\* reader.TransferRoots(); shape = reader.OneShape()
TransferRoots ==
    /\ pc = "transfer"
    /\ SafeCallProgress(<<Checkpoint(8, "meshing")>>)
    /\ pc' = "tessellate"
    /\ UNCHANGED <<input, past_end, mesh, counting, walking, passes, result,
                   written, env>>

\* the step with containers that outlive the call (created once, not at
\* lines 90-92 of every call)
Tessellate_NoReset ==
    /\ pc = "tessellate"
    /\ SafeCallProgress(<<Checkpoint(12, "meshed")>>)
    /\ exp_counter' = 1 /\ total_faces' = 0
    /\ pc' = "count"
    /\ UNCHANGED <<input, past_end, mesh, walking, passes, result, written,
                   env>>

\* BRepMesh_IncrementalMesh, then the containers and the counting explorer
Tessellate ==
    /\ pc = "tessellate"
    /\ SafeCallProgress(<<Checkpoint(12, "meshed")>>)
    /\ vertices' = <<>> /\ faces' = <<>> /\ vertex_map' = EmptyMap
    /\ exp_counter' = 1 /\ total_faces' = 0
    /\ pc' = "count"
    /\ UNCHANGED <<input, past_end, tri_count, walking, passes, result,
                   written, env>>

\* while exp_counter.More(): total_faces += 1; exp_counter.Next()
CountStep ==
    /\ pc = "count"
    /\ More(exp_counter)
    /\ total_faces' = total_faces + 1
    /\ exp_counter' = exp_counter + 1
    /\ UNCHANGED <<pc, input, past_end, mesh, walking, passes, attempted,
                   delivered, escaped, cb_raised, result, written, env>>

\* the end of the counting loop without the test of total_faces == 0
CountDone_NoZeroTest ==
    /\ pc = "count"
    /\ ~More(exp_counter)
    /\ exp' = 1
    /\ face_processed' = 0
    /\ tri_count' = 0
    /\ update_every' = UpdateEvery(total_faces)
    /\ pc' = "walk"
    /\ UNCHANGED <<input, past_end, restarts, vertices, faces, vertex_map,
                   counting, passes, attempted, delivered, escaped, cb_raised,
                   result, written, env>>

\* end of the counting loop: no faces is an error, else the walk is set up
CountDone ==
    /\ pc = "count"
    /\ ~More(exp_counter)
    /\ IF total_faces = 0
       THEN /\ SafeCallProgress(<<Checkpoint(0, "error")>>)
            /\ Return(FALSE, "No faces found")
            /\ UNCHANGED <<exp, face_processed, tri_count, update_every>>
       ELSE /\ exp' = 1
            /\ face_processed' = 0
            /\ tri_count' = 0
            /\ update_every' = UpdateEvery(total_faces)
            /\ pc' = "walk"
            /\ UNCHANGED <<attempted, delivered, escaped, cb_raised, result>>
    /\ UNCHANGED <<input, past_end, restarts, vertices, faces, vertex_map,
                   counting, passes, written, env>>

\* loop head with a triangulated face: face_processed += 1, enter the passes
BeginFace ==
    /\ pc = "walk"
    /\ More(exp)
    /\ Current(exp).has
    /\ face_processed' = face_processed + 1
    /\ i' = 1
    /\ pc' = "nodes"
    /\ UNCHANGED <<input, past_end, mesh, counting, exp, update_every,
                   restarts, t_idx,
                   attempted, delivered, escaped, cb_raised, result, written,
                   env>>

\* loop head with triangulation None: face_processed += 1, exp.Next(),
\* exp.Next() again, continue.  The second Next() may find the explorer
\* already exhausted.
SkipFace ==
    /\ pc = "walk"
    /\ More(exp)
    /\ ~Current(exp).has
    /\ face_processed' = face_processed + 1
    /\ LET e1 == exp + 1
       IN  IF More(e1)
           THEN /\ exp' = e1 + 1
                /\ UNCHANGED <<pc, past_end, restarts, attempted, delivered,
                               escaped, cb_raised, result, env>>
           ELSE /\ past_end' \in (IF past_end = "unobserved"
                                  THEN PastEndOutcomes ELSE {past_end})
                /\ Answered("exp.Next", past_end')
                /\ IF past_end' = "stay"
                   THEN /\ exp' = e1
                        /\ UNCHANGED <<pc, restarts, attempted, delivered,
                                       escaped, cb_raised, result>>
                   ELSE IF past_end' = "restart"
                   THEN /\ restarts < MaxRestarts
                        /\ restarts' = restarts + 1
                        /\ exp' = 1
                        /\ UNCHANGED <<pc, attempted, delivered, escaped,
                                       cb_raised, result>>
                   ELSE /\ exp' = e1
                        /\ SafeCallProgress(<<Checkpoint(0, "error")>>)
                        /\ Return(FALSE, "Conversion exception")
                        /\ UNCHANGED restarts
    /\ UNCHANGED <<input, mesh, counting, update_every, passes, written>>

\* key of node n of a face in the node pass: the transformed point, or the
\* point itself when transforming this node raises, rounded
NodeKey(face, n) ==
    LET p == face.nodes[n]
        raised == n \in face.bad
        p_t == IF raised THEN p ELSE Transformed(p, face.loc)
    IN  Coord(p_t)

\* key of the k-th node of a triangle in the triangle pass: the transformed
\* point, or the point itself when transforming any of the three raises
TriKey(face, tri, k) ==
    LET raised == \E j \in 1..3 : tri[j] \in face.bad
        p == face.nodes[tri[k]]
        p_t == IF raised THEN p ELSE Transformed(p, face.loc)
    IN  Coord(p_t)

\* node pass, node i: transform (or fall back), round, insert if absent
NodeStep ==
    /\ pc = "nodes"
    /\ i <= Len(Current(exp).nodes)
    /\ LET tbl == InsertNode([v |-> vertices, m |-> vertex_map],
                             NodeKey(Current(exp), i))
       IN  /\ vertices' = tbl.v
           /\ vertex_map' = tbl.m
    /\ i' = i + 1
    /\ UNCHANGED <<pc, input, past_end, faces, tri_count, counting, walking,
                   t_idx, attempted, delivered, escaped, cb_raised, result,
                   written, env>>

\* end of the node pass
NodesDone ==
    /\ pc = "nodes"
    /\ i > Len(Current(exp).nodes)
    /\ t_idx' = 1
    /\ pc' = "tris"
    /\ UNCHANGED <<input, past_end, mesh, counting, walking, i, attempted,
                   delivered, escaped, cb_raised, result, written, env>>

\* triangle pass, triangle t_idx: transform all three nodes (or fall back for
\* all three), round, look up, insert what is missing, append [ia, ib, ic]
TriStep ==
    /\ pc = "tris"
    /\ t_idx <= Len(Current(exp).tris)
    /\ LET face == Current(exp)
           tri == face.tris[t_idx]
           r == ResolveTriangle([v |-> vertices, m |-> vertex_map],
                                TriKey(face, tri, 1), TriKey(face, tri, 2),
                                TriKey(face, tri, 3))
       IN  /\ vertices' = r.tbl.v
           /\ vertex_map' = r.tbl.m
           /\ faces' = Append(faces, r.tri)
    /\ tri_count' = tri_count + 1
    /\ t_idx' = t_idx + 1
    /\ UNCHANGED <<pc, input, past_end, counting, walking, i, attempted,
                   delivered, escaped, cb_raised, result, written, env>>

\* end of the triangle pass
TrisDone ==
    /\ pc = "tris"
    /\ t_idx > Len(Current(exp).tris)
    /\ pc' = "progress"
    /\ UNCHANGED <<input, past_end, mesh, counting, walking, passes, attempted,
                   delivered, escaped, cb_raised, result, written, env>>

\* the progress update of a processed face, then exp.Next()
EndFace ==
    /\ pc = "progress"
    /\ SafeCallProgress(
         IF face_processed % update_every = 0 \/ face_processed = total_faces
         THEN <<Checkpoint(Pct(face_processed, total_faces), "processing")>>
         ELSE <<>>)
    /\ exp' = exp + 1
    /\ pc' = "walk"
    /\ UNCHANGED <<input, past_end, mesh, counting, face_processed,
                   update_every, restarts, passes, result, written, env>>

\* exp.More() is false: the loop ends
WalkDone ==
    /\ pc = "walk"
    /\ ~More(exp)
    /\ pc' = "check"
    /\ UNCHANGED <<input, past_end, mesh, counting, walking, passes, attempted,
                   delivered, escaped, cb_raised, result, written, env>>

\* the empty-mesh test without its return: the error checkpoint is followed
\* by the export
CheckMesh_NoReturn ==
    /\ pc = "check"
    /\ SafeCallProgress(IF NoMesh(vertices, faces)
                        THEN <<Checkpoint(0, "error"),
                               Checkpoint(90, "exporting")>>
                        ELSE <<Checkpoint(90, "exporting")>>)
    /\ pc' = "export"
    /\ UNCHANGED <<input, past_end, mesh, counting, walking, passes, result,
                   written, env>>

\* the empty-mesh test; a non-empty mesh goes on to the export
CheckMesh ==
    /\ pc = "check"
    /\ IF NoMesh(vertices, faces)
       THEN /\ SafeCallProgress(<<Checkpoint(0, "error")>>)
            /\ Return(FALSE, "No mesh extracted")
       ELSE /\ SafeCallProgress(<<Checkpoint(90, "exporting")>>)
            /\ pc' = "export"
            /\ UNCHANGED result
    /\ UNCHANGED <<input, past_end, mesh, counting, walking, passes, written,
                   env>>

\* the trimesh is built and exported to glb_bytes
Export ==
    /\ pc = "export"
    /\ pc' = "write"
    /\ UNCHANGED <<input, past_end, mesh, counting, walking, passes, attempted,
                   delivered, escaped, cb_raised, result, written, env>>

\* dst.write_bytes(glb_bytes) returns; the finished checkpoint, return success
WriteBytes ==
    /\ pc = "write"
    /\ written' = TRUE
    /\ Answered("dst.write_bytes", "written")
    /\ SafeCallProgress(<<Checkpoint(100, "finished")>>)
    /\ Return(TRUE, "Converted")
    /\ UNCHANGED <<input, past_end, mesh, counting, walking, passes>>

\* what dst.write_bytes leaves when it raises: nothing when dst could not be
\* opened, a created or partly written file when the write failed
WriteFailures == {"not opened", "partly written"}

\* dst.write_bytes(glb_bytes) raises: except Exception, error checkpoint and
\* return
WriteFails ==
    /\ pc = "write"
    /\ \E failure \in WriteFailures :
         /\ written' = (failure = "partly written")
         /\ Answered("dst.write_bytes", failure)
    /\ SafeCallProgress(<<Checkpoint(0, "error")>>)
    /\ Return(FALSE, "Conversion exception")
    /\ UNCHANGED <<input, past_end, mesh, counting, walking, passes>>

\* the steps of the try block that call a collaborator
RaisePcs == {"read", "transfer", "tessellate", "count", "walk", "nodes",
             "tris", "progress", "export"}

\* the except clause without its error checkpoint
Raise_Silent ==
    /\ pc \in RaisePcs
    /\ Answered(pc, "raised")
    /\ Return(FALSE, "Conversion exception")
    /\ UNCHANGED <<input, past_end, mesh, counting, walking, passes, attempted,
                   delivered, escaped, cb_raised, written>>

\* except Exception: a collaborator raised; error checkpoint and return
Raise ==
    /\ pc \in RaisePcs
    /\ Answered(pc, "raised")
    /\ SafeCallProgress(<<Checkpoint(0, "error")>>)
    /\ Return(FALSE, "Conversion exception")
    /\ UNCHANGED <<input, past_end, mesh, counting, walking, passes, written>>

Next ==
    \/ CheckExists
    \/ ImportLibs
    \/ Starting
    \/ ReadFile
    \/ TransferRoots
    \/ Tessellate
    \/ CountStep
    \/ CountDone
    \/ BeginFace
    \/ SkipFace
    \/ NodeStep
    \/ NodesDone
    \/ TriStep
    \/ TrisDone
    \/ EndFace
    \/ WalkDone
    \/ CheckMesh
    \/ Export
    \/ WriteBytes
    \/ WriteFails
    \/ Raise

Spec == Init /\ [][Next]_vars

(* ---------------------------------------------------------------------- *)
(* Two conversions of the same input, one after the other                  *)
(* ---------------------------------------------------------------------- *)
\* shapes of the repeated conversions: faces without triangulation, plain
\* faces, and faces whose triangle pass inserts vertices
PairFaceKinds == {FNone, FTri, FShift}

PairShapes == UNION {[1..n -> PairFaceKinds] : n \in 0..(MaxFaces - 1)}

\* convert_step_to_glb is called again on the same src, with any observer.
\* The call starts at its first statement with nothing returned and nothing
\* reported; its locals are whatever they are until the call assigns them.
Again ==
    /\ pc = "done"
    /\ run = 1
    /\ first' = [result |-> result, vertices |-> vertices, faces |-> faces,
                 attempted |-> attempted, delivered |-> delivered,
                 env |-> env, progress_callback |-> progress_callback]
    /\ run' = 2
    /\ progress_callback' \in {"absent", "ok", "raises"}
    /\ pc' = "exists"
    /\ result' = NoResult
    /\ attempted' = <<>> /\ delivered' = <<>>
    /\ env' = <<>>
    /\ past_end' = "unobserved"
    /\ restarts' = 0
    /\ written' = FALSE
    /\ cb_raised' = FALSE
    /\ UNCHANGED <<shape, mesh, counting, exp, face_processed, update_every,
                   passes, escaped>>

PairInit == Init /\ shape \in PairShapes

PairNext == Next \/ Again

PairSpec == PairInit /\ [][PairNext]_vars
(* ---------------------------------------------------------------------- *)
(* Properties                                                              *)
(* ---------------------------------------------------------------------- *)
Observed == progress_callback # "absent"
Succeeded == pc = "done" /\ result.ok
Failed == pc = "done" /\ ~result.ok
WalkEnded == pc = "check"
AllTriangulated == \A k \in 1..Len(shape) : shape[k].has

StateOf(c) == c.state
Processing(log) == SelectSeq(log, LAMBDA c : c.state = "processing")
NonError(log) == SelectSeq(log, LAMBDA c : c.state # "error")
NonDecreasing(log) ==
    \A j \in 1..Len(log) : \A k \in j..Len(log) :
        log[j].percent <= log[k].percent

\* C1: when the face walk ends, the number of faces it visited
\* (face_processed) equals total_faces of the counting walk.
FaceCountAgreement == WalkEnded => face_processed = total_faces

\* one face as the spec describes it: the node pass, then the triangle pass
MeshOfFace(face, tbl, tris) ==
    LET AfterNodes[n \in 0..Len(face.nodes)] ==
            IF n = 0 THEN tbl
            ELSE InsertNode(AfterNodes[n - 1], NodeKey(face, n))
        AfterTris[t \in 0..Len(face.tris)] ==
            IF t = 0 THEN [tbl |-> AfterNodes[Len(face.nodes)], f |-> tris]
            ELSE LET tri == face.tris[t]
                     r == ResolveTriangle(AfterTris[t - 1].tbl,
                                          TriKey(face, tri, 1),
                                          TriKey(face, tri, 2),
                                          TriKey(face, tri, 3))
                 IN  [tbl |-> r.tbl, f |-> Append(AfterTris[t - 1].f, r.tri)]
    IN  AfterTris[Len(face.tris)]

\* the faces fs in order, from a table and a triangle list
RECURSIVE MeshOfFaces(_, _, _)
MeshOfFaces(fs, tbl, tris) ==
    IF Len(fs) = 0 THEN [tbl |-> tbl, f |-> tris]
    ELSE IF Len(fs) = 1 THEN MeshOfFace(fs[1], tbl, tris)
    ELSE LET h == Len(fs) \div 2
             left == MeshOfFaces(SubSeq(fs, 1, h), tbl, tris)
         IN  MeshOfFaces(SubSeq(fs, h + 1, Len(fs)), left.tbl, left.f)

Triangulated(fs) == SelectSeq(fs, LAMBDA face : face.has)

\* C2: when the walk ends, the mesh is the mesh of the same shape with its
\* untriangulated faces removed.
SkipLeavesOthers ==
    WalkEnded =>
        LET ref == MeshOfFaces(Triangulated(shape),
                               [v |-> <<>>, m |-> EmptyMap], <<>>)
        IN  vertices = ref.tbl.v /\ faces = ref.f

\* C3: at every point of the walk and after it, each index of each
\* triangle of faces is in 0 .. len(vertices) - 1.
IndexValidity ==
    \A t \in 1..Len(faces) : \A k \in 1..3 :
        0 <= faces[t][k] /\ faces[t][k] < Len(vertices)

\* a walk has appended triangles, through the lookup and through the
\* insert-if-missing branch
IndexValidityWitness ==
    /\ WalkEnded
    /\ Len(faces) >= 3
    /\ Len(vertices) > Cardinality(DOMAIN vertex_map)

\* C4: vertex_map is a bijection between its keys and the indices
\* 0 .. len(vertices) - 1, and vertices[vertex_map[k]] = k.
DedupExact ==
    /\ \A k \in DOMAIN vertex_map :
         /\ 0 <= vertex_map[k] /\ vertex_map[k] < Len(vertices)
         /\ vertices[vertex_map[k] + 1] = k
    /\ \A n \in 1..Len(vertices) :
         /\ vertices[n] \in DOMAIN vertex_map
         /\ vertex_map[vertices[n]] = n - 1

\* C5: a conversion that returns success, and any conversion that has emitted
\* the exporting checkpoint, has at least one vertex and one triangle.
NonEmptyOnSuccess ==
    /\ Succeeded => Len(vertices) >= 1 /\ Len(faces) >= 1
    /\ (\E k \in 1..Len(attempted) : attempted[k].state = "exporting")
          => Len(vertices) >= 1 /\ Len(faces) >= 1

\* a successful conversion of a shape one of whose faces has nodes but no
\* triangle
NonEmptyWitness ==
    /\ Succeeded
    /\ \E k \in 1..Len(shape) : shape[k] = FNoTris

\* C6 as stated: the percents delivered are non-decreasing over the whole
\* run, failing runs included, the first is <= 1, and on success the last
\* is 100.
PercentMonotoneAlways ==
    /\ NonDecreasing(delivered)
    /\ delivered # <<>> => delivered[1].percent <= 1
    /\ Succeeded /\ Observed => delivered[Len(delivered)].percent = 100

\* C6 amended: the percents delivered with a state other than error are
\* non-decreasing over the whole run, the first percent delivered is <= 1,
\* and on success the last is 100.
PercentMonotone ==
    /\ NonDecreasing(NonError(delivered))
    /\ delivered # <<>> => delivered[1].percent <= 1
    /\ Succeeded /\ Observed => delivered[Len(delivered)].percent = 100

\* a finished conversion, successful or not, that delivered several
\* processing checkpoints
PercentMonotoneWitness ==
    /\ pc = "done"
    /\ Len(Processing(delivered)) >= 2

\* C7: an error checkpoint is the last checkpoint delivered, so nothing
\* follows it and there is at most one.
ErrorTerminal ==
    \A k \in 1..Len(delivered) :
        delivered[k].state = "error" => k = Len(delivered)

\* a conversion that failed on an exception after delivering checkpoints
ErrorTerminalWitness ==
    /\ Failed
    /\ result.message = "Conversion exception"
    /\ Len(delivered) >= 5
    /\ delivered[Len(delivered)].state = "error"

\* the checkpoints before the processing updates, in order
Opening == <<Checkpoint(1, "starting"), Checkpoint(5, "loaded"),
             Checkpoint(8, "meshing"), Checkpoint(12, "meshed")>>

\* log is starting, loaded, meshing, meshed, one or more processing,
\* exporting, finished
FullOrder(log) ==
    LET n == Len(log)
    IN  /\ n >= 7
        /\ SubSeq(log, 1, 4) = Opening
        /\ \A k \in 5..(n - 2) : log[k].state = "processing"
        /\ log[n - 1] = Checkpoint(90, "exporting")
        /\ log[n] = Checkpoint(100, "finished")

\* log is a proper prefix of such a sequence
PrefixOfOrder(log) ==
    LET n == Len(log)
    IN  /\ \A k \in 1..n : k <= 4 => log[k] = Opening[k]
        /\ \A k \in 5..n :
             \/ log[k].state = "processing"
             \/ k = n /\ k >= 6 /\ log[k] = Checkpoint(90, "exporting")

\* C8: a successful conversion delivers the checkpoints in the fixed order
\* with at least one processing checkpoint; a failing one delivers a prefix
\* of that order and then the error checkpoint.
CheckpointOrder ==
    /\ Succeeded /\ Observed => FullOrder(delivered)
    /\ Failed /\ Observed =>
         /\ delivered # <<>>
         /\ delivered[Len(delivered)] = Checkpoint(0, "error")
         /\ PrefixOfOrder(SubSeq(delivered, 1, Len(delivered) - 1))

\* C9: when the face walk of a shape completes, exactly one processing
\* checkpoint with percent 90 has been delivered.
FinalFaceReported ==
    WalkEnded /\ Observed =>
        Len(SelectSeq(delivered,
                      LAMBDA c : c = Checkpoint(90, "processing"))) = 1

\* C10: for a shape whose faces all have a triangulation, the processing
\* checkpoints delivered once p faces are done are those of the counts
\* q <= p with q mod max(1, ceil(T/100)) = 0 or q = T, in increasing q,
\* each with percent 12 + floor(q * 78 / T).
ProcessingCadence ==
    AllTriangulated /\ Observed /\ pc \in {"walk", "check"} =>
        LET T == total_faces
            every == IF (T + 99) \div 100 > 1 THEN (T + 99) \div 100 ELSE 1
            counts == SelectSeq([q \in 1..face_processed |-> q],
                                LAMBDA q : q % every = 0 \/ q = T)
        IN  Processing(delivered) =
              [k \in 1..Len(counts) |->
                 Checkpoint(12 + (counts[k] * 78) \div T, "processing")]

\* a repeated conversion that got the answers of the first one has returned
Repeated == run = 2 /\ pc = "done" /\ env = first.env

\* C11: no exception of the observer leaves _safe_call_progress, and a
\* conversion repeated on the same input with any observer (absent, returning,
\* raising in any of its calls) returns the same result, leaves the same
\* vertices and triangles and attempts the same checkpoints as the first.
ObserverBlind ==
    /\ ~escaped
    /\ Repeated =>
         /\ result = first.result
         /\ vertices = first.vertices
         /\ faces = first.faces
         /\ attempted = first.attempted

\* a successful conversion without observer, repeated with an observer that
\* raised
ObserverBlindWitness ==
    /\ Repeated
    /\ first.progress_callback = "absent"
    /\ progress_callback = "raises"
    /\ cb_raised
    /\ result.ok
    /\ faces # <<>>
    /\ Len(attempted) >= 7

\* every collaborator has answered without failing so far
NoFailure ==
    \A k \in 1..Len(env) :
        env[k].outcome \in {"True", "imported", "RetDone", "stay", "restart",
                            "written"}

\* a conversion of a shape without faces has returned, no collaborator failed
ZeroFaces == Len(shape) = 0 /\ pc = "done" /\ NoFailure

\* C12 as stated: a shape with zero faces fails with the no-faces error, the
\* containers stay empty, and the observer receives the single checkpoint
\* (0, "error").
ZeroFacesSingleCheckpoint ==
    ZeroFaces =>
        /\ result = [ok |-> FALSE, message |-> "No faces found"]
        /\ vertices = <<>> /\ faces = <<>> /\ vertex_map = EmptyMap
        /\ Observed => delivered = <<Checkpoint(0, "error")>>

\* C12: a shape with zero faces never gets a vertex, a triangle or a
\* vertex_map entry; when no collaborator fails its conversion returns the
\* no-faces error, and the checkpoints are starting, loaded, meshing, meshed
\* and then the one error checkpoint (0, "error").
ZeroFacesError ==
    /\ Len(shape) = 0 =>
         vertices = <<>> /\ faces = <<>> /\ vertex_map = EmptyMap
    /\ ZeroFaces =>
         /\ result = [ok |-> FALSE, message |-> "No faces found"]
         /\ attempted = Opening \o <<Checkpoint(0, "error")>>
         /\ Observed => delivered = attempted

\* the observed conversion of a shape without faces has returned
ZeroFacesWitness == ZeroFaces /\ Observed /\ Len(delivered) = 5

\* state of the last checkpoint of log, "" when log is empty
LastState(log) == IF log = <<>> THEN "" ELSE log[Len(log)].state

\* the messages of the failing returns
FailureMessages ==
    {"Input file not found", "Required libraries missing", "STEP read failed",
     "No faces found", "No mesh extracted", "Conversion exception"}

\* C13: with an observer, a conversion that has returned returned failure
\* exactly when the last checkpoint delivered is an error checkpoint and
\* success exactly when it is the finished checkpoint, on every failure
\* path; while it has not returned the last checkpoint is neither.
BothChannels ==
    Observed =>
        /\ pc = "done" =>
             /\ ~result.ok <=> LastState(delivered) = "error"
             /\ result.ok <=> LastState(delivered) = "finished"
             /\ ~result.ok => result.message \in FailureMessages
        /\ pc # "done" => LastState(delivered) \notin {"error", "finished"}

\* an observed conversion failed reading, after a delivered checkpoint
BothChannelsWitness ==
    /\ Failed /\ Observed
    /\ result.message = "STEP read failed"
    /\ Len(delivered) = 2
    /\ LastState(delivered) = "error"

\* a collaborator raised during the conversion
CollaboratorRaised ==
    \E k \in 1..Len(env) :
        env[k].outcome \in {"raised", "raise", "not opened", "partly written"}

\* C14: a conversion in which a collaborator raised (reading, tessellation,
\* the face walk and its explorer, deduplication, export) returns failure
\* with the error checkpoint as its last checkpoint, never success; and dst
\* holds bytes written by the conversion only if it returned success.
FailuresReported ==
    /\ pc = "done" /\ CollaboratorRaised =>
         /\ ~result.ok
         /\ LastState(attempted) = "error"
         /\ Observed => LastState(delivered) = "error"
    /\ written => Succeeded

\* C15: a conversion repeated on the same shape with the same answers of the
\* collaborators leaves the same vertex sequence and the same triangle
\* sequence as the first and attempts the same checkpoints; with the same
\* kind of observer the checkpoints delivered are the same too.
Deterministic ==
    Repeated =>
        /\ vertices = first.vertices
        /\ faces = first.faces
        /\ attempted = first.attempted
        /\ progress_callback = first.progress_callback =>
             delivered = first.delivered

\* a successful observed conversion of a shape whose triangle pass inserts
\* vertices, repeated with the same observer
DeterministicWitness ==
    /\ Repeated
    /\ progress_callback = "ok" /\ first.progress_callback = "ok"
    /\ result.ok
    /\ Len(faces) >= 2
    /\ Len(vertices) > 4
    /\ Len(delivered) >= 7

\* log has a checkpoint with this state
HasState(log, state) == \E k \in 1..Len(log) : log[k].state = state

\* C16: when a shape with at least one face has been walked to the end with
\* no collaborator failing and there is no vertex or no triangle, the
\* conversion returns the 'No mesh extracted' error, with neither an
\* exporting nor a finished checkpoint; and that error is returned only for
\* such a walk.
EmptyMeshError ==
    LET empty == Len(vertices) = 0 \/ Len(faces) = 0
    IN  /\ (pc = "done" /\ NoFailure /\ Len(shape) >= 1 /\ empty) =>
             /\ result = [ok |-> FALSE, message |-> "No mesh extracted"]
             /\ LastState(attempted) = "error"
             /\ ~HasState(attempted, "exporting")
             /\ ~HasState(attempted, "finished")
             /\ Observed => delivered = attempted
        /\ (pc = "done" /\ result.message = "No mesh extracted") =>
             /\ empty
             /\ total_faces >= 1
             /\ NoFailure

\* the walk of a face with nodes and no triangle left vertices but no
\* triangle, and the observed conversion returned the error
EmptyMeshWitness ==
    /\ pc = "done" /\ NoFailure /\ Observed
    /\ vertices # <<>> /\ faces = <<>>
    /\ result.message = "No mesh extracted"

\* the last n triangles of faces are the images of the first n triangles of
\* face, in order: the vertices at their three indices are the rounded keys
\* of the triangle's first, second and third node
ImageOfFirst(n, face) ==
    /\ Len(faces) >= n
    /\ \A k \in 1..n :
         LET out == faces[Len(faces) - n + k]
         IN  \A j \in 1..3 :
               /\ out[j] \in 0..(Len(vertices) - 1)
               /\ vertices[out[j] + 1] = TriKey(face, face.tris[k], j)

\* C17: in the triangle pass of a face the triangles appended so far are the
\* images of the face's triangles so far, in source order and node order,
\* degenerate ones included, and all of them once the pass ends; a step
\* appends exactly one triangle after the others when it is a step of the
\* triangle pass on the next source triangle, and otherwise leaves the
\* triangle list as it is.
TriangleImage ==
    /\ [](pc = "tris" => ImageOfFirst(t_idx - 1, Current(exp)))
    /\ [](pc = "progress" =>
            ImageOfFirst(Len(Current(exp).tris), Current(exp)))
    /\ [][IF pc = "tris" /\ t_idx <= Len(Current(exp).tris) /\ pc' = "tris"
          THEN /\ t_idx' = t_idx + 1
               /\ Len(faces') = Len(faces) + 1
               /\ SubSeq(faces', 1, Len(faces)) = faces
          ELSE faces' = faces]_vars

\* the pass of a face with a degenerate triangle has ended, two triangles
\* appended
TriangleImageWitness ==
    /\ pc = "progress"
    /\ Len(Current(exp).tris) = 2
    /\ Len(faces) >= 2
    /\ \E j \in 1..3, k \in 1..3 :
         j # k /\ faces[Len(faces)][j] = faces[Len(faces)][k]

\* C18: every step leaves the vertex_map entries and the vertices elements
\* it found unchanged and appends to vertices only; and a key a step inserts
\* keeps the index it received when it was inserted, the length of vertices
\* at that moment (a step of the triangle pass makes up to three
\* insertions).
AppendOnly ==
    [][/\ \A k \in DOMAIN vertex_map :
            k \in DOMAIN vertex_map' /\ vertex_map'[k] = vertex_map[k]
       /\ Len(vertices') >= Len(vertices)
       /\ SubSeq(vertices', 1, Len(vertices)) = vertices
       /\ \A k \in DOMAIN vertex_map' \ DOMAIN vertex_map :
            \E j \in (Len(vertices) + 1)..Len(vertices') :
                /\ vertices'[j] = k
                /\ \A h \in (Len(vertices) + 1)..(j - 1) : vertices'[h] # k
                /\ vertex_map'[k] = j - 1]_vars

\* C19: for each triangle the triangle pass comes to, the key of each of its
\* nodes equals the key the node pass computed for that node and is in
\* vertex_map, so that the triangle pass inserts nothing; also when
\* transforming a node of the face raises.
PassesAgree ==
    pc = "tris" /\ t_idx <= Len(Current(exp).tris) =>
        LET face == Current(exp)
            tri == face.tris[t_idx]
        IN  \A k \in 1..3 :
              tri[k] \in 1..Len(face.nodes) =>
                /\ TriKey(face, tri, k) = NodeKey(face, tri[k])
                /\ TriKey(face, tri, k) \in DOMAIN vertex_map

\* the terminal checkpoints of log
Terminal(log) ==
    SelectSeq(log, LAMBDA c : c.state \in {"finished", "error"})

\* C20: the face loop makes at most total_faces iterations: the count of
\* its iterations, face_processed, never exceeds total_faces, which bounds
\* the run; and when the conversion has returned, exactly one terminal
\* checkpoint (finished or error) was delivered, as the last checkpoint.
Termination ==
    /\ face_processed <= total_faces
    /\ pc = "done" /\ Observed =>
         /\ Len(Terminal(delivered)) = 1
         /\ LastState(delivered) \in {"finished", "error"}

====
